---- MODULE Spec2Model ----
(***************************************************************************)
(* Model of chart.py: generate_synthetic_data, create_boxplot and main.    *)
(*                                                                         *)
(* Representation.  Purchase amounts are floats in the program; here an    *)
(* amount is an integer number of tenths (25.0 is 250), so that a product  *)
(* of a whole-valued draw and a one-decimal factor is exact.  Axis limits  *)
(* are hundredths (an amount in tenths times 9 or 11).  Lengths on the     *)
(* figure are hundredths of a typographic point (1 inch = 7200).           *)
(* Python lists are sequences indexed from 1; position p of the program    *)
(* is index p + 1.                                                         *)
(***************************************************************************)
EXTENDS Integers, Sequences, FiniteSets

VARIABLES
    caller,          \* who drives the module: "main" (the script) or "test" (an importing caller)
    pc,              \* the statement about to run, "top" between calls
    calls,           \* calls made so far, per function, and file write attempts
    random_state,    \* generate_synthetic_data: its argument
    rng,             \* generate_synthetic_data: the local generator
    segments,        \* generate_synthetic_data: the local label list
    amounts,         \* generate_synthetic_data: the local amount list
    base_vip,        \* generate_synthetic_data: the VIP array before it is appended
    outlier_indices, \* generate_synthetic_data: the chosen positions (0-based)
    draws,           \* history: for each appended amount, its parameters and clipped draw
    ret,             \* the caller's df: the last dataset generate_synthetic_data returned
    returned,        \* history: per seed, the datasets returned for it
    df,              \* create_boxplot: its dataset argument
    output_path,     \* create_boxplot: its path argument
    rc,              \* the plotting library's global settings
    figs,            \* the plotting library's open figures, the current one last
    files,           \* the file system: path -> image or NoFile
    rendered_from    \* history: path -> the dataset its image was rendered from

vars == <<caller, pc, calls, random_state, rng, segments, amounts, base_vip,
          outlier_indices, draws, ret, returned, df, output_path, rc, figs,
          files, rendered_from>>

genLocals == <<random_state, rng, segments, amounts, base_vip, outlier_indices, draws>>
plotLocals == <<df, output_path>>
plotGlobals == <<rc, figs, files, rendered_from>>

(***************************************************************************)
(* Bounds of the exploration.                                              *)
(***************************************************************************)
MaxSeed == 0
MaxCalls == 3

(***************************************************************************)
(* Program constants.                                                      *)
(***************************************************************************)
DefaultSeed == 42
n_budget == 200
n_regular == 250
n_premium == 180
n_vip == 120
n_outliers == 5
FigInches == 8
SaveDpi == 64

DefaultPath == "chart.png"
Paths == {DefaultPath, "other.png"}
Seeds == (0 .. MaxSeed) \cup {DefaultSeed}

NoFile == [kind |-> "none"]
NoData == [Segment |-> <<>>, PurchaseAmount |-> <<>>]
NoRng == [key |-> 0, ctr |-> 0]

Max(a, b) == IF a >= b THEN a ELSE b
SetMin(S) == CHOOSE x \in S : \A y \in S : x <= y
SetMax(S) == CHOOSE x \in S : \A y \in S : x >= y

(***************************************************************************)
(* The pseudo-random source.  A generator is a key (the seed) and a        *)
(* counter of the values consumed; the k-th raw value is a fixed function  *)
(* of the key and k, so a generator made from a seed always yields the     *)
(* same stream.                                                            *)
(***************************************************************************)
Bits(key, k) ==
    (((key * 31 + k * 17 + 7) % 1009) * ((k * 13 + key * 5 + 3) % 997)) % 65521

\* Variant: the seed is not passed on, so each call gets a stream of its own.
default_rng_unseeded(seed) == [key |-> calls.generate, ctr |-> 0]

\* np.random.default_rng(seed): a new generator, positioned at its start.
default_rng(seed) == [key |-> seed, ctr |-> 0]

Advance(g, n) == [g EXCEPT !.ctr = g.ctr + n]

\* A standard normal deviate, discretised to the whole numbers -5 .. 5, the
\* values near 0 the most frequent (the sum of two raw digits 0 .. 5, less 5).
StdNormal(g, i) ==
    LET b == Bits(g.key, g.ctr + i) IN (b % 6) + ((b \div 6) % 6) - 5

\* rng.normal(loc, scale, size): loc + scale * z for each of size deviates (tenths).
normal(g, loc, scale, size) ==
    [i \in 1 .. size |-> (loc + scale * StdNormal(g, i)) * 10]

\* Variant: the clip is left out.
noclip(arr, lo) == arr

\* ndarray.clip(min=lo): every value below lo is replaced by lo (lo in units).
clip(arr, lo) == [i \in 1 .. Len(arr) |-> Max(arr[i], lo * 10)]

\* rng.uniform(low, high, size) with low, high in tenths: low <= f < high.
uniform(g, low, high, size) ==
    [i \in 1 .. size |-> low + (Bits(g.key, g.ctr + i) % (high - low))]

\* The r-th smallest (from 0) member of a set of numbers.
Nth(S, r) == CHOOSE x \in S : Cardinality({y \in S : y < x}) = r

RECURSIVE ChoiceFrom(_, _, _, _)
ChoiceFrom(g, pool, size, j) ==
    IF j > size THEN <<>>
    ELSE LET x == Nth(pool, Bits(g.key, g.ctr + j) % Cardinality(pool))
         IN  <<x>> \o ChoiceFrom(g, pool \ {x}, size, j + 1)

\* Variant: replace=True, the draws are independent.
choice_replace(g, n, size) ==
    [j \in 1 .. size |-> Bits(g.key, g.ctr + j) % n]

\* rng.choice(n, size, replace=False): size distinct members of 0 .. n-1.
choice(g, n, size) == ChoiceFrom(g, 0 .. (n - 1), size, 1)

\* Variant: the index is left out and the whole array is scaled.
ScaleAll(arr, idx, fac) == [i \in 1 .. Len(arr) |-> (arr[i] * fac[1]) \div 10]

\* arr[idx] *= fac with idx 0-based: the products are computed from the old
\* values and then stored, so a position named twice keeps its last product.
ScaleAt(arr, idx, fac) ==
    [i \in 1 .. Len(arr) |->
        LET js == {j \in 1 .. Len(idx) : idx[j] = i - 1}
        IN  IF js = {} THEN arr[i] ELSE (arr[i] * fac[SetMax(js)]) \div 10]

\* [label] * n
Repeat(label, n) == [i \in 1 .. n |-> label]

\* Variant: the new block is put in front.
ExtendFront(list, more) == more \o list

\* Variant: = in place of +=.
Assign(list, more) == more

\* list += more
Extend(list, more) == list \o more

\* The three segments that are drawn, clipped and appended in one statement.
Plain ==
    <<[name |-> "Budget",  n |-> n_budget,  loc |-> 25,  scale |-> 8,  floor |-> 5,
       at |-> "g40", then |-> "g41", next |-> "g45"],
      [name |-> "Regular", n |-> n_regular, loc |-> 60,  scale |-> 15, floor |-> 10,
       at |-> "g45", then |-> "g46", next |-> "g50"],
      [name |-> "Premium", n |-> n_premium, loc |-> 120, scale |-> 25, floor |-> 20,
       at |-> "g50", then |-> "g51", next |-> "g55"]>>

Vip == [name |-> "VIP", n |-> n_vip, loc |-> 220, scale |-> 40, floor |-> 50]

\* History entries for values drawn with the parameters of segment s.
Drawn(s, vals) ==
    [i \in 1 .. Len(vals) |->
        [loc |-> s.loc, scale |-> s.scale, floor |-> s.floor, value |-> vals[i]]]

(***************************************************************************)
(* Initial state: the module is imported, nothing has been called.         *)
(***************************************************************************)
Init ==
    /\ caller \in {"main", "test"}
    /\ pc = "top"
    /\ calls = [generate |-> 0, create_boxplot |-> 0, savefig |-> 0]
    /\ random_state = 0
    /\ rng = NoRng
    /\ segments = <<>>
    /\ amounts = <<>>
    /\ base_vip = <<>>
    /\ outlier_indices = <<>>
    /\ draws = <<>>
    /\ ret = NoData
    /\ returned = [s \in Seeds |-> {}]
    /\ df = NoData
    /\ output_path = ""
    /\ rc = [style |-> "default", font_size |-> 10]
    /\ figs = <<>>
    /\ files = [p \in Paths |-> NoFile]
    /\ rendered_from = [p \in Paths |-> NoData]

(***************************************************************************)
(* generate_synthetic_data                                                 *)
(***************************************************************************)
\* The call: main calls it once with the default seed, before rendering; an
\* importing caller calls it with any seed, any number of times.
CallGenerate ==
    /\ pc = "top"
    /\ \E seed \in Seeds :
          /\ \/ caller = "main" /\ calls.generate = 0 /\ seed = DefaultSeed
             \/ caller = "test" /\ calls.generate + calls.create_boxplot < MaxCalls
          /\ random_state' = seed
    /\ calls' = [calls EXCEPT !.generate = @ + 1]
    /\ pc' = "g33"
    /\ UNCHANGED <<caller, rng, segments, amounts, base_vip, outlier_indices, draws,
                   ret, returned>>
    /\ UNCHANGED plotLocals
    /\ UNCHANGED plotGlobals

\* lines 33-36
MakeRng ==
    /\ pc = "g33"
    /\ rng' = default_rng(random_state)
    /\ segments' = <<>>
    /\ amounts' = <<>>
    /\ draws' = <<>>
    /\ pc' = "g40"
    /\ UNCHANGED <<caller, calls, random_state, base_vip, outlier_indices, ret, returned>>
    /\ UNCHANGED plotLocals
    /\ UNCHANGED plotGlobals

\* lines 40, 45, 50: segments += [name] * n
PlainLabels ==
    /\ \E k \in 1 .. Len(Plain) :
          /\ pc = Plain[k].at
          /\ segments' = Extend(segments, Repeat(Plain[k].name, Plain[k].n))
          /\ pc' = Plain[k].then
    /\ UNCHANGED <<caller, calls, random_state, rng, amounts, base_vip,
                   outlier_indices, draws, ret, returned>>
    /\ UNCHANGED plotLocals
    /\ UNCHANGED plotGlobals

\* lines 41, 46, 51: amounts += list(rng.normal(loc, scale, n).clip(min=floor))
PlainAmounts ==
    /\ \E k \in 1 .. Len(Plain) :
          LET s == Plain[k]
              vals == clip(normal(rng, s.loc, s.scale, s.n), s.floor)
          IN  /\ pc = s.then
              /\ amounts' = Extend(amounts, vals)
              /\ draws' = draws \o Drawn(s, vals)
              /\ rng' = Advance(rng, s.n)
              /\ pc' = s.next
    /\ UNCHANGED <<caller, calls, random_state, segments, base_vip,
                   outlier_indices, ret, returned>>
    /\ UNCHANGED plotLocals
    /\ UNCHANGED plotGlobals

\* line 55
VipLabels ==
    /\ pc = "g55"
    /\ segments' = Extend(segments, Repeat(Vip.name, Vip.n))
    /\ pc' = "g56"
    /\ UNCHANGED <<caller, calls, random_state, rng, amounts, base_vip,
                   outlier_indices, draws, ret, returned>>
    /\ UNCHANGED plotLocals
    /\ UNCHANGED plotGlobals

\* line 56
VipBase ==
    /\ pc = "g56"
    /\ base_vip' = clip(normal(rng, Vip.loc, Vip.scale, Vip.n), Vip.floor)
    /\ draws' = draws \o Drawn(Vip, base_vip')
    /\ rng' = Advance(rng, Vip.n)
    /\ pc' = "g58"
    /\ UNCHANGED <<caller, calls, random_state, segments, amounts,
                   outlier_indices, ret, returned>>
    /\ UNCHANGED plotLocals
    /\ UNCHANGED plotGlobals

\* line 58
VipChoose ==
    /\ pc = "g58"
    /\ outlier_indices' = choice(rng, Vip.n, n_outliers)
    /\ rng' = Advance(rng, n_outliers)
    /\ pc' = "g59"
    /\ UNCHANGED <<caller, calls, random_state, segments, amounts, base_vip,
                   draws, ret, returned>>
    /\ UNCHANGED plotLocals
    /\ UNCHANGED plotGlobals

\* line 59: base_vip[outlier_indices] *= rng.uniform(1.8, 2.5, size=5)
VipScale ==
    /\ pc = "g59"
    /\ base_vip' = ScaleAt(base_vip, outlier_indices, uniform(rng, 18, 25, n_outliers))
    /\ rng' = Advance(rng, n_outliers)
    /\ pc' = "g60"
    /\ UNCHANGED <<caller, calls, random_state, segments, amounts,
                   outlier_indices, draws, ret, returned>>
    /\ UNCHANGED plotLocals
    /\ UNCHANGED plotGlobals

\* line 60
VipAmounts ==
    /\ pc = "g60"
    /\ amounts' = Extend(amounts, base_vip)
    /\ pc' = "g69"
    /\ UNCHANGED <<caller, calls, random_state, rng, segments, base_vip,
                   outlier_indices, draws, ret, returned>>
    /\ UNCHANGED plotLocals
    /\ UNCHANGED plotGlobals

\* pd.DataFrame({...}): the columns must have one length.
DataFrame(labels, values) == [Segment |-> labels, PurchaseAmount |-> values]

\* lines 62-69: build the frame and return it; the locals go with the call.
\* The constructor raises when the two lists differ in length.
ReturnData ==
    /\ pc = "g69"
    /\ IF Len(segments) = Len(amounts)
       THEN /\ ret' = DataFrame(segments, amounts)
            /\ returned' = [returned EXCEPT ![random_state] = @ \cup {ret'}]
            /\ pc' = "top"
       ELSE /\ pc' = "fault"
            /\ UNCHANGED <<ret, returned>>
    /\ rng' = NoRng
    /\ segments' = <<>>
    /\ amounts' = <<>>
    /\ base_vip' = <<>>
    /\ outlier_indices' = <<>>
    /\ draws' = <<>>
    /\ UNCHANGED <<caller, calls, random_state>>
    /\ UNCHANGED plotLocals
    /\ UNCHANGED plotGlobals

Generate ==
    \/ CallGenerate \/ MakeRng \/ PlainLabels \/ PlainAmounts \/ VipLabels
    \/ VipBase \/ VipChoose \/ VipScale \/ VipAmounts \/ ReturnData

(***************************************************************************)
(* Properties of generate_synthetic_data.                                  *)
(***************************************************************************)
SegmentNames == {"Budget", "Regular", "Premium", "VIP"}

FloorOf(name) ==
    CASE name = "Budget" -> 5 [] name = "Regular" -> 10
      [] name = "Premium" -> 20 [] name = "VIP" -> 50

\* Every amount of dataset d is at least the floor of its label (tenths).
FloorsHold(d) ==
    \A i \in 1 .. Len(d.PurchaseAmount) :
        /\ d.Segment[i] \in SegmentNames
        /\ d.PurchaseAmount[i] >= FloorOf(d.Segment[i]) * 10

\* The positions whose amount is not the clipped draw made for them.
Scaled == {i \in 1 .. Len(amounts) : amounts[i] # draws[i].value}

\* C2 (floor invariant): in the dataset about to be returned and in every
\* dataset returned, each amount is >= the floor of its segment (5, 10, 20, 50),
\* the scaled VIP amounts included.
C2_FloorInvariant ==
    /\ pc = "g69" /\ Len(segments) = Len(amounts) => FloorsHold(DataFrame(segments, amounts))
    /\ FloorsHold(ret)

\* A dataset about to be returned in which a draw was clipped to its floor in
\* every segment and a VIP value clipped to 50 was then scaled.
C2_Witness ==
    /\ pc = "g69"
    /\ \A name \in SegmentNames :
          \E i \in 1 .. Len(amounts) :
              segments[i] = name /\ draws[i].value = FloorOf(name) * 10
    /\ Scaled # {}

\* C3 (outlier count): when the dataset is complete, exactly 5 positions differ
\* from their clipped draw, all 5 among the 120 VIP positions 630 .. 749 and
\* named by 5 pairwise distinct indices; each is its clipped draw times a factor
\* f with 1.8 <= f < 2.5 (so scaled once); every other amount is its clipped draw.
C3_OutlierCount ==
    pc = "g69" =>
        /\ Len(outlier_indices) = 5
        /\ \A j, k \in 1 .. 5 : j # k => outlier_indices[j] # outlier_indices[k]
        /\ \A j \in 1 .. 5 : outlier_indices[j] \in 0 .. 119
        /\ Scaled = {631 + outlier_indices[j] : j \in 1 .. 5}
        /\ Cardinality(Scaled) = 5
        /\ \A i \in Scaled :
              /\ 18 * draws[i].value <= 10 * amounts[i]
              /\ 10 * amounts[i] < 25 * draws[i].value
        /\ \A i \in (1 .. Len(amounts)) \ Scaled : amounts[i] = draws[i].value

\* A complete dataset with scaled positions in it.
C3_Witness ==
    /\ pc = "g69"
    /\ Len(amounts) = 750
    /\ \E i \in 631 .. 750 : amounts[i] > draws[i].value

CountOf(d, name) == Cardinality({i \in 1 .. Len(d.Segment) : d.Segment[i] = name})

\* C4 (segment sizes): every dataset returned has exactly 200 Budget, 250
\* Regular, 180 Premium and 120 VIP samples, 750 in all, and no other label.
C4_SegmentSizes ==
    ret # NoData =>
        /\ CountOf(ret, "Budget") = 200
        /\ CountOf(ret, "Regular") = 250
        /\ CountOf(ret, "Premium") = 180
        /\ CountOf(ret, "VIP") = 120
        /\ Len(ret.Segment) = 750
        /\ Len(ret.PurchaseAmount) = 750
        /\ \A i \in 1 .. Len(ret.Segment) : ret.Segment[i] \in SegmentNames

\* A dataset has been returned for a seed other than the default one.
C4_Witness == ret # NoData /\ pc = "top" /\ random_state # DefaultSeed

\* C5 (determinism): all the datasets returned for one seed are the same
\* dataset, whatever calls were made before or between.
C5_Determinism == \A s \in Seeds : Cardinality(returned[s]) <= 1

\* One seed was generated twice, with a call for another seed in between or before.
C5_Witness ==
    /\ pc = "top"
    /\ calls.generate = 3
    /\ Cardinality({s \in Seeds : returned[s] # {}}) = 2

ParamsOf(name) ==
    CASE name = "Budget" -> <<25, 8, 5>> [] name = "Regular" -> <<60, 15, 10>>
      [] name = "Premium" -> <<120, 25, 20>> [] name = "VIP" -> <<220, 40, 50>>

LabelAt(i) ==
    IF i <= 200 THEN "Budget" ELSE IF i <= 450 THEN "Regular"
    ELSE IF i <= 630 THEN "Premium" ELSE "VIP"

\* C10 (grouping): after each segment is appended the label list and the amount
\* list have one length; in the complete lists and in every dataset returned the
\* labels are Budget at positions 0-199, Regular at 200-449, Premium at 450-629
\* and VIP at 630-749; and each amount was drawn with the parameters of the
\* segment that labels it.
C10_Grouping ==
    /\ pc \in {"g45", "g50", "g55", "g69"} =>
          /\ Len(segments) = Len(amounts)
          /\ \A i \in 1 .. Len(segments) :
                /\ segments[i] = LabelAt(i)
                /\ <<draws[i].loc, draws[i].scale, draws[i].floor>> = ParamsOf(segments[i])
    /\ pc = "g69" => Len(segments) = 750
    /\ ret # NoData => \A i \in 1 .. 750 : ret.Segment[i] = LabelAt(i)

\* The complete lists, about to be returned.
C10_Witness == pc = "g69" /\ Len(segments) = 750 /\ Len(draws) = 750

(***************************************************************************)
(* create_boxplot                                                          *)
(***************************************************************************)
Perms == {"same", "reversed", "strided"}

\* The rows of d in another order: position i of the result is row At(i) of d.
Permute(d, perm) ==
    LET n == Len(d.Segment)
        At(i) == CASE perm = "same" -> i
                   [] perm = "reversed" -> n + 1 - i
                   [] perm = "strided" -> (((i - 1) * 7) % n) + 1
    IN  [Segment |-> [i \in 1 .. n |-> d.Segment[At(i)]],
         PurchaseAmount |-> [i \in 1 .. n |-> d.PurchaseAmount[At(i)]]]

\* The call: main renders the dataset it generated to chart.png; an importing
\* caller renders a generated dataset, its rows in any order, to any path.
CallBoxplot ==
    /\ pc = "top"
    /\ ret # NoData
    /\ \E perm \in Perms, path \in Paths :
          /\ \/ caller = "main" /\ calls.create_boxplot = 0
                /\ perm = "same" /\ path = DefaultPath
             \/ caller = "test" /\ calls.generate + calls.create_boxplot < MaxCalls
          /\ df' = Permute(ret, perm)
          /\ output_path' = path
    /\ calls' = [calls EXCEPT !.create_boxplot = @ + 1]
    /\ pc' = "b82"
    /\ UNCHANGED <<caller, ret, returned>>
    /\ UNCHANGED genLocals
    /\ UNCHANGED plotGlobals

\* sns.set_style(name): the global style becomes name.
set_style(rcp, name) == [rcp EXCEPT !.style = name]

\* line 82
SetStyle ==
    /\ pc = "b82"
    /\ rc' = set_style(rc, "whitegrid")
    /\ pc' = "b83"
    /\ UNCHANGED <<caller, calls, ret, returned, figs, files, rendered_from>>
    /\ UNCHANGED genLocals
    /\ UNCHANGED plotLocals

\* The library's base font size (points) and the scaling of a context (tenths).
BaseFontSize == 12
ContextScale(name) ==
    CASE name = "paper" -> 8 [] name = "notebook" -> 10
      [] name = "talk" -> 15 [] name = "poster" -> 20

\* Variant: the size in force is scaled, not the base size.
set_context_relative(rcp, name) ==
    [rcp EXCEPT !.font_size = (@ * ContextScale(name)) \div 10]

\* sns.set_context(name): the global font size becomes the base size scaled.
set_context(rcp, name) ==
    [rcp EXCEPT !.font_size = (BaseFontSize * ContextScale(name)) \div 10]

\* line 83
SetContext ==
    /\ pc = "b83"
    /\ rc' = set_context(rc, "talk")
    /\ pc' = "b86"
    /\ UNCHANGED <<caller, calls, ret, returned, figs, files, rendered_from>>
    /\ UNCHANGED genLocals
    /\ UNCHANGED plotLocals

\* plt.figure(figsize): a new, empty figure in the style in force.
figure(rcp, w, h) ==
    [figsize |-> <<w, h>>, style |-> rcp.style, font_size |-> rcp.font_size,
     xticks |-> <<>>, groups |-> <<>>, palette |-> "", showfliers |-> FALSE,
     title |-> "", xlabel |-> "", ylabel |-> "", ylim |-> <<0, 100>>,
     layout |-> "default", pad |-> 0]

\* line 86: the new figure becomes the current one.
NewFigure ==
    /\ pc = "b86"
    /\ figs' = Append(figs, figure(rc, FigInches, FigInches))
    /\ pc' = "b91"
    /\ UNCHANGED <<caller, calls, ret, returned, rc, files, rendered_from>>
    /\ UNCHANGED genLocals
    /\ UNCHANGED plotLocals

\* The values of d labelled name, as a bag: value -> number of occurrences.
BagOf(d, name) ==
    LET rows == {i \in 1 .. Len(d.Segment) : d.Segment[i] = name}
        vals == {d.PurchaseAmount[i] : i \in rows}
    IN  [v \in vals |-> Cardinality({i \in rows : d.PurchaseAmount[i] = v})]

\* Variant: no order is given; the labels of d in the order of their first row.
AppearanceOrder(d, order) ==
    LET labs == {d.Segment[i] : i \in 1 .. Len(d.Segment)}
        First(l) == SetMin({i \in 1 .. Len(d.Segment) : d.Segment[i] = l})
    IN  [k \in 1 .. Cardinality(labs) |->
            CHOOSE l \in labs : Cardinality({m \in labs : First(m) < First(l)}) = k - 1]

\* The categories of the x axis, left to right: order, when one is given.
GroupOrder(d, order) == order

Values(d) == {d.PurchaseAmount[i] : i \in 1 .. Len(d.PurchaseAmount)}

\* The limits autoscaling gives an axis that shows lo .. hi (tenths): the range
\* widened by a margin of 5 % at each end (hundredths).
Autoscale(lo, hi) == <<lo * 10 - (hi - lo) \div 2, hi * 10 + (hi - lo) \div 2>>

\* sns.boxplot(data, x, y, order, palette, showfliers) on the current axes: one
\* box per category of the x axis, summarising the rows that carry its label.
boxplot(fig, d, order, palette, showfliers) ==
    LET cats == GroupOrder(d, order)
    IN  [fig EXCEPT !.xticks = cats,
                    !.groups = [k \in 1 .. Len(cats) |-> BagOf(d, cats[k])],
                    !.palette = palette,
                    !.showfliers = showfliers,
                    !.ylim = Autoscale(SetMin(Values(d)), SetMax(Values(d)))]

Current == Len(figs)

\* lines 89-98
Boxplot ==
    /\ pc = "b91"
    /\ figs' = [figs EXCEPT ![Current] =
                   boxplot(@, df, <<"Budget", "Regular", "Premium", "VIP">>, "Set2", TRUE)]
    /\ pc' = "b101"
    /\ UNCHANGED <<caller, calls, ret, returned, rc, files, rendered_from>>
    /\ UNCHANGED genLocals
    /\ UNCHANGED plotLocals

\* lines 101-108
Labels ==
    /\ pc = "b101"
    /\ figs' = [figs EXCEPT ![Current] =
                   [@ EXCEPT !.title = "Purchase Amount Distribution by Customer Segment",
                             !.xlabel = "Customer Segment",
                             !.ylabel = "Purchase Amount ($)"]]
    /\ pc' = "b111"
    /\ UNCHANGED <<caller, calls, ret, returned, rc, files, rendered_from>>
    /\ UNCHANGED genLocals
    /\ UNCHANGED plotLocals

\* Variant: the two factors are exchanged.
YLimitsSwapped(d) == <<SetMin(Values(d)) * 11, SetMax(Values(d)) * 9>>

\* lines 111-112: (ymin * 0.9, ymax * 1.1) over the whole column (hundredths).
YLimits(d) == <<SetMin(Values(d)) * 9, SetMax(Values(d)) * 11>>

\* lines 111-112
SetYLim ==
    /\ pc = "b111"
    /\ figs' = [figs EXCEPT ![Current] = [@ EXCEPT !.ylim = YLimits(df)]]
    /\ pc' = "b115"
    /\ UNCHANGED <<caller, calls, ret, returned, rc, files, rendered_from>>
    /\ UNCHANGED genLocals
    /\ UNCHANGED plotLocals

\* plt.tight_layout(): the axes are resized so that everything drawn keeps a
\* margin of 1.08 times the global font size from each edge of the figure.
tight_layout(fig, rcp) == [fig EXCEPT !.layout = "tight", !.pad = 108 * rcp.font_size]

\* line 115
TightLayout ==
    /\ pc = "b115"
    /\ figs' = [figs EXCEPT ![Current] = tight_layout(@, rc)]
    /\ pc' = "b118"
    /\ UNCHANGED <<caller, calls, ret, returned, rc, files, rendered_from>>
    /\ UNCHANGED genLocals
    /\ UNCHANGED plotLocals

\* The margin savefig adds around a tight bounding box: 0.1 inch.
SavePad == 720

\* The side of what is drawn on the figure: the figure less its margins.
ContentSide(fig, k) == fig.figsize[k] * 7200 - 2 * fig.pad

\* The pixels along side k of the saved image: with bbox_inches="tight" the
\* bounding box of what is drawn plus the save margin, else the figure, at dpi.
SavedPixels(fig, k, dpi, bbox_inches) ==
    LET side == IF bbox_inches = "tight" THEN ContentSide(fig, k) + 2 * SavePad
                ELSE fig.figsize[k] * 7200
    IN  (side * dpi) \div 7200

\* plt.savefig(path, dpi, bbox_inches): the image of the current figure.
savefig(fig, dpi, bbox_inches) ==
    [kind |-> "png",
     width |-> SavedPixels(fig, 1, dpi, bbox_inches),
     height |-> SavedPixels(fig, 2, dpi, bbox_inches),
     style |-> fig.style, font_size |-> fig.font_size, palette |-> fig.palette,
     xticks |-> fig.xticks, groups |-> fig.groups, showfliers |-> fig.showfliers,
     title |-> fig.title, xlabel |-> fig.xlabel, ylabel |-> fig.ylabel,
     ylim |-> fig.ylim]

\* Variant: a failed write is tried again.
RetryWrite(c) == "b118"

\* Where control goes when the write raises: nothing in the module catches it,
\* so the script ends with the fault and an importing caller gets it.
AfterWriteError(c) == IF c = "main" THEN "fault" ELSE "top"

\* line 118: the file is written, replacing what was there, or the write fails
\* and the error leaves create_boxplot with the figure still open.
SaveFig ==
    /\ pc = "b118"
    /\ calls' = [calls EXCEPT !.savefig = @ + 1]
    /\ \E ok \in BOOLEAN :
          IF ok
          THEN /\ files' = [files EXCEPT ![output_path] = savefig(figs[Current], SaveDpi, "tight")]
               /\ rendered_from' = [rendered_from EXCEPT ![output_path] = df]
               /\ pc' = "b119"
               /\ UNCHANGED plotLocals
          ELSE /\ pc' = AfterWriteError(caller)
               /\ df' = NoData
               /\ output_path' = ""
               /\ UNCHANGED <<files, rendered_from>>
    /\ UNCHANGED <<caller, ret, returned, rc, figs>>
    /\ UNCHANGED genLocals

\* line 119: the current figure is closed and create_boxplot returns; the
\* script has nothing left to do.
CloseFig ==
    /\ pc = "b119"
    /\ figs' = SubSeq(figs, 1, Len(figs) - 1)
    /\ df' = NoData
    /\ output_path' = ""
    /\ pc' = IF caller = "main" THEN "exit" ELSE "top"
    /\ UNCHANGED <<caller, calls, ret, returned, rc, files, rendered_from>>
    /\ UNCHANGED genLocals

CreateBoxplot ==
    \/ CallBoxplot \/ SetStyle \/ SetContext \/ NewFigure \/ Boxplot \/ Labels
    \/ SetYLim \/ TightLayout \/ SaveFig \/ CloseFig

(***************************************************************************)
(* Properties of create_boxplot and main.                                  *)
(***************************************************************************)
\* C1 (image size): every image file written is 512 pixels wide and 512 high.
C1_ImageSize ==
    \A p \in Paths : files[p] # NoFile => files[p].width = 512 /\ files[p].height = 512

DisplayOrder == <<"Budget", "Regular", "Premium", "VIP">>

\* C6 (display order): once the boxes are drawn, and in the image just saved,
\* the x axis reads Budget, Regular, Premium, VIP from left to right and the
\* k-th box summarises exactly the values that carry the k-th label in the
\* caller's dataset, in whatever order its rows were passed.
C6_FixedOrder ==
    /\ pc = "b101" =>
          /\ figs[Current].xticks = DisplayOrder
          /\ \A k \in 1 .. 4 : figs[Current].groups[k] = BagOf(ret, DisplayOrder[k])
    /\ pc = "b119" =>
          /\ files[output_path].xticks = DisplayOrder
          /\ \A k \in 1 .. 4 : files[output_path].groups[k] = BagOf(ret, DisplayOrder[k])

\* An image has been saved from a dataset passed with its VIP rows first.
C6_Witness ==
    /\ pc = "b119"
    /\ df # ret
    /\ df.Segment[1] = "VIP"
    /\ files[output_path].xticks[1] = "Budget"

\* The limits are 0.9 times the least and 1.1 times the greatest of the amounts
\* vals, and every one of them is strictly between the limits (hundredths).
Shows(ylim, vals) ==
    /\ \E m, M \in vals :
          /\ \A v \in vals : m <= v /\ v <= M
          /\ ylim = <<9 * m, 11 * M>>
    /\ \A v \in vals : ylim[1] < 10 * v /\ 10 * v < ylim[2]

RangeShows(ylim, d) == Shows(ylim, Values(d))

\* C7 (y range): from the statement that sets the limits to the saved image the
\* y range is [0.9 min, 1.1 max] over all amounts of the dataset, and every
\* amount lies strictly inside it.
C7_YRange ==
    /\ pc \in {"b115", "b118"} /\ df # NoData => RangeShows(figs[Current].ylim, df)
    /\ pc = "b119" => RangeShows(files[output_path].ylim, df)

\* An image has been saved whose upper limit is 1.1 times a scaled VIP amount
\* above every unscaled draw (220 + 5 * 40 = 420).
C7_Witness ==
    /\ pc = "b119"
    /\ files[output_path].ylim[2] > 11 * 4200

\* C8 (idempotent rendering): a write to a path whose image was rendered from
\* the same dataset leaves the same image there, whatever the earlier calls
\* left in the global settings and among the open figures.
C8_Idempotence ==
    [][(pc = "b118" /\ pc' = "b119" /\ rendered_from[output_path] = df)
          => files'[output_path] = files[output_path]]_vars

\* The second rendering of one dataset to one path is about to write, the first
\* image in place.
C8_Witness ==
    /\ pc = "b118"
    /\ files[output_path] # NoFile
    /\ rendered_from[output_path] = df
    /\ calls.create_boxplot >= 2

GeneratePcs == {"g33", "g40", "g41", "g45", "g46", "g50", "g51", "g55", "g56", "g58",
                "g59", "g60", "g69"}
BoxplotPcs == {"b82", "b83", "b86", "b91", "b101", "b111", "b115", "b118", "b119"}

C9_State ==
    caller = "main" =>
        /\ calls.generate <= 1 /\ calls.create_boxplot <= 1 /\ calls.savefig <= 1
        /\ calls.generate = 1 => random_state = 42
        /\ calls.create_boxplot = 1 =>
              /\ calls.generate = 1
              /\ pc \notin GeneratePcs
              /\ returned[42] = {ret}
        /\ pc \in BoxplotPcs => df = ret /\ output_path = "chart.png"
        /\ \A p \in Paths \ {"chart.png"} : files[p] = NoFile
        /\ files["chart.png"] # NoFile => calls.savefig = 1 /\ rendered_from["chart.png"] = ret
        /\ pc = "exit" =>
              /\ calls = [generate |-> 1, create_boxplot |-> 1, savefig |-> 1]
              /\ files["chart.png"] # NoFile
        /\ pc = "fault" => calls.savefig = 1 /\ files["chart.png"] = NoFile

C9_Step ==
    caller = "main" /\ (files["chart.png"] # NoFile \/ pc = "fault") =>
        /\ files' = files
        /\ calls' = calls
        /\ pc' \in {"b119", "exit"}

\* C9 (the script): main generates once, with seed 42, then renders that
\* dataset once to chart.png, the rendering starting after the generation has
\* returned; no other file is written; after the write nothing runs but the
\* closing of the figure; a failed write ends the run, with no second attempt
\* and no file.
C9_Main == []C9_State /\ [][C9_Step]_vars

\* The script has run to its end and the file is there.
C9_Witness == caller = "main" /\ pc = "exit" /\ files["chart.png"] # NoFile

Next == Generate \/ CreateBoxplot

Spec == Init /\ [][Next]_vars

====
